---- MODULE Spec2Model ----
(***************************************************************************)
(* The data-access layer of FinanceTracker: class Database of              *)
(* src/SmartTaskTracker/finance_control/database.py over its SQLite store. *)
(* The store is the two tables; every method is one action that runs the   *)
(* method's statements on the tables and records what it returned.         *)
(*                                                                         *)
(* Text is modelled as the sequence of its character codes, so that        *)
(* formatting, parsing and SQLite's byte-wise comparison of TEXT values    *)
(* are computed and not assumed. Category names, colours and descriptions  *)
(* are only ever compared for equality and stay TLA+ strings; the Russian  *)
(* default names are transliterated.                                       *)
(***************************************************************************)
EXTENDS Integers, Sequences, FiniteSets, TLC

VARIABLES
    categories,    \* table categories: id -> [name, color, type]
    transactions,  \* table transactions: id -> [amount, category_id, date, description, type]
    last,          \* the last call: method, arguments, outcome, and the tables before it
    first_id,      \* history: (name, type) -> what the first add_category of that pair returned
    nops,          \* number of calls made that may write to the store
    heap,          \* the inner dicts of the settings: object -> (key -> value)
    settings,      \* Settings instance -> its self.settings: section -> inner dict object
    settings_file, \* Settings instance -> the file at its settings_file path
    running        \* application instance -> the call it is in the middle of

vars == <<categories, transactions, last, first_id, nops, heap, settings, settings_file, running>>

\* Python None, in a slot that otherwise holds an identifier
None == -1

\* SQL NULL / Python None, in a slot that otherwise holds text
NULLText == <<0>>

\* ------------------------------------------------------------------ bounds

\* calls that may write to the store, per behaviour
MaxOps == 3

\* ------------------------------------------------------------------ text and dates

Dash == 45
Space == 32
Zero == 48

IsDigit(c) == c >= Zero /\ c <= Zero + 9

RECURSIVE Digits(_)
\* the decimal digits of n, no padding
Digits(n) == IF n < 10 THEN <<Zero + n>> ELSE Digits(n \div 10) \o <<Zero + (n % 10)>>

Pad2(n) == <<Zero + (n \div 10), Zero + (n % 10)>>

Pad4(n) ==
    <<Zero + (n \div 1000), Zero + ((n \div 100) % 10), Zero + ((n \div 10) % 10), Zero + (n % 10)>>

RECURSIVE Number(_)
\* the value of a sequence of digit characters
Number(s) == IF s = <<>> THEN 0 ELSE 10 * Number(SubSeq(s, 1, Len(s) - 1)) + (s[Len(s)] - Zero)

AllDigits(s) == \A i \in 1..Len(s) : IsDigit(s[i])

IsLeap(y) == (y % 4 = 0 /\ y % 100 # 0) \/ y % 400 = 0

DaysInMonth(y, m) ==
    IF m = 2 THEN (IF IsLeap(y) THEN 29 ELSE 28)
    ELSE IF m \in {4, 6, 9, 11} THEN 30 ELSE 31

\* a datetime object (only its day matters to this code)
datetime(y, m, d) == [year |-> y, month |-> m, day |-> d]

NoDatetime == datetime(0, 0, 0)

\* datetime.strftime("%Y-%m-%d"): %m and %d are zero-padded to two digits; the C
\* library's %Y prints the year as a plain decimal, so a year before 1000 has
\* fewer than four digits
strftime(dt) == Digits(dt.year) \o <<Dash>> \o Pad2(dt.month) \o <<Dash>> \o Pad2(dt.day)

\* the positions of the dashes of a text
Dashes(s) == {i \in 1..Len(s) : s[i] = Dash}

\* datetime.strptime(s, "%Y-%m-%d"): %Y is exactly four digits, %m is
\* 1[0-2]|0[1-9]|[1-9], %d is 3[01]|[12]\d|0[1-9]|[1-9]| [1-9], the whole text
\* must be consumed, and the day must exist in that month of that year (year >= 1).
\* [ok |-> FALSE] stands for ValueError.
strptime(s) ==
    LET ds == Dashes(s)
        bad == [ok |-> FALSE, dt |-> NoDatetime]
    IN  IF Cardinality(ds) # 2 THEN bad
        ELSE
          LET i == CHOOSE a \in ds : \A b \in ds : a <= b
              j == CHOOSE a \in ds : \A b \in ds : a >= b
              Y == SubSeq(s, 1, i - 1)
              M == SubSeq(s, i + 1, j - 1)
              D == SubSeq(s, j + 1, Len(s))
              D1 == IF Len(D) = 2 /\ D[1] = Space THEN SubSeq(D, 2, 2) ELSE D
              y == Number(Y)
              m == Number(M)
              d == Number(D1)
          IN  IF /\ Len(Y) = 4 /\ AllDigits(Y)
                 /\ Len(M) \in {1, 2} /\ AllDigits(M) /\ m >= 1 /\ m <= 12
                 /\ Len(D) \in {1, 2} /\ AllDigits(D1) /\ d >= 1 /\ d <= 31
                 /\ y >= 1 /\ d <= DaysInMonth(y, m)
              THEN [ok |-> TRUE, dt |-> datetime(y, m, d)]
              ELSE bad

RECURSIVE TextLess(_, _)
\* SQLite's BINARY collation and Python's str order: byte by byte, a prefix first
TextLess(a, b) ==
    IF b = <<>> THEN FALSE
    ELSE IF a = <<>> THEN TRUE
    ELSE IF a[1] # b[1] THEN a[1] < b[1]
    ELSE TextLess(Tail(a), Tail(b))

TextLeq(a, b) == a = b \/ TextLess(a, b)

\* SQLite strftime('%Y-%m', text): the text must read YYYY-MM-DD with a month of
\* 01..12 and a day of 01..31, otherwise the result is NULL. (Every stored text
\* was written by strftime above, so a day beyond the month's end, which SQLite
\* would carry into the next month, does not occur.)
sqlite_strftime_month(s) ==
    IF /\ Len(s) = 10
       /\ s[5] = Dash /\ s[8] = Dash
       /\ AllDigits(SubSeq(s, 1, 4)) /\ AllDigits(SubSeq(s, 6, 7)) /\ AllDigits(SubSeq(s, 9, 10))
       /\ Number(SubSeq(s, 6, 7)) \in 1..12
       /\ Number(SubSeq(s, 9, 10)) \in 1..31
    THEN SubSeq(s, 1, 7)
    ELSE NULLText

\* ------------------------------------------------------------------ arguments

\* the texts callers pass as dates
Text_2024_02_01 == <<50, 48, 50, 52, 45, 48, 50, 45, 48, 49>>   \* "2024-02-01"
Text_2024_1_5 == <<50, 48, 50, 52, 45, 49, 45, 53>>             \* "2024-1-5"
Text_0999_01_01 == <<48, 57, 57, 57, 45, 48, 49, 45, 48, 49>>   \* "0999-01-01"
Text_2024_02_30 == <<50, 48, 50, 52, 45, 48, 50, 45, 51, 48>>   \* "2024-02-30"

\* a date argument: None, a datetime object or a str
DateNone == [kind |-> "none", dt |-> NoDatetime, text |-> <<>>]
DateObj(y, m, d) == [kind |-> "datetime", dt |-> datetime(y, m, d), text |-> <<>>]
DateStr(s) == [kind |-> "str", dt |-> NoDatetime, text |-> s]

\* datetime.now(), the day the calls are made
Now == datetime(2024, 1, 20)

NameArgs == {"Produkty", "Food"}
ColorArgs == {"#000000"}
CategoryTypeArgs == {"income", "expense", "other"}
CategoryIdArgs == {1, 2, 14}
TransactionIdArgs == {1, 2}

TransactionArgs(amount, category_id, description, transaction_type, date) ==
    [amount |-> amount, category_id |-> category_id, description |-> description,
     type |-> transaction_type, date |-> date]

\* the argument lists add_transaction and update_transaction are called with:
\* rows of both types, with and without a category, on each kind of date, and
\* calls with an amount or a type the methods reject
TransactionInputs ==
    { TransactionArgs(300, 1, "lunch", "expense", DateObj(2024, 1, 5)),
      TransactionArgs(200, 1, "", "expense", DateStr(Text_2024_02_01)),
      TransactionArgs(200, None, "", "income", DateNone),
      TransactionArgs(300, 2, "", "income", DateStr(Text_2024_1_5)),
      TransactionArgs(200, 2, "lunch", "expense", DateStr(Text_0999_01_01)),
      TransactionArgs(300, None, "", "expense", DateStr(Text_2024_02_30)),
      TransactionArgs(0, 1, "", "expense", DateObj(2024, 1, 5)),
      TransactionArgs(-5, None, "lunch", "income", DateStr(Text_2024_02_01)),
      TransactionArgs(300, 1, "", "transfer", DateNone),
      TransactionArgs(0, 2, "", "transfer", DateStr(Text_2024_02_30)) }

\* ------------------------------------------------------------------ the store

Max(S) == CHOOSE x \in S : \A y \in S : y <= x

Min(S) == CHOOSE x \in S : \A y \in S : x <= y

\* the rowid SQLite gives a row inserted without one into an INTEGER PRIMARY KEY
\* table: one more than the largest rowid in use
lastrowid(table) == IF DOMAIN table = {} THEN 1 ELSE Max(DOMAIN table) + 1

Insert(table, row) ==
    LET id == lastrowid(table)
    IN  [i \in DOMAIN table \cup {id} |-> IF i = id THEN row ELSE table[i]]

RECURSIVE executemany(_, _)
\* INSERT of each row of a list, in order
executemany(table, rows) ==
    IF rows = <<>> THEN table ELSE executemany(Insert(table, Head(rows)), Tail(rows))

Delete(table, ids) == [i \in DOMAIN table \ ids |-> table[i]]

Category(name, color, type) == [name |-> name, color |-> color, type |-> type]

expense_categories ==
    << Category("Produkty", "#4CAF50", "expense"),
       Category("Transport", "#2196F3", "expense"),
       Category("Zhilye", "#FFC107", "expense"),
       Category("Razvlecheniya", "#9C27B0", "expense"),
       Category("Zdorovye", "#F44336", "expense"),
       Category("Odezhda", "#FF9800", "expense"),
       Category("Obrazovanie", "#795548", "expense"),
       Category("Prochee", "#607D8B", "expense") >>

income_categories ==
    << Category("Zarplata", "#4CAF50", "income"),
       Category("Frilans", "#2196F3", "income"),
       Category("Investitsii", "#FFC107", "income"),
       Category("Podarki", "#9C27B0", "income"),
       Category("Prochee", "#607D8B", "income") >>

CountOfType(cats, type) == Cardinality({i \in DOMAIN cats : cats[i].type = type})

\* the defaults of both types are inserted only into an empty table
_create_default_categories_WhenEmpty(cats) ==
    IF DOMAIN cats = {}
    THEN executemany(executemany(cats, expense_categories), income_categories)
    ELSE cats

\* the default categories of a type are inserted when no category of that type exists
_create_default_categories(cats) ==
    LET withExpense ==
            IF CountOfType(cats, "expense") = 0 THEN executemany(cats, expense_categories) ELSE cats
    IN  IF CountOfType(withExpense, "income") = 0
        THEN executemany(withExpense, income_categories)
        ELSE withExpense

EmptyTable == [i \in {} |-> 0]

\* ------------------------------------------------------------------ settings objects

\* the Settings instances the application makes, each on a settings_file of its own
Instances == {"first", "second"}

\* the class attribute DEFAULT_SETTINGS: a dict whose values are the inner
\* dicts, the objects 1, 2 and 3
DEFAULT_SETTINGS == [database |-> 1, interface |-> 2, analytics |-> 3]

\* the inner dicts when the class is created
DefaultHeap ==
    << [path |-> "finance.db"],
       [theme |-> "Fusion", language |-> "ru_RU"],
       [default_period |-> "month"] >>

\* a settings_file path at which there is no file
NoFile == [state |-> "missing", document |-> <<>>]

\* an application instance that is in no call
NotRunning == [pc |-> "idle"]

\* the two application instances that may work on one store
Apps == {1, 2}

\* no Settings instance is made and no call is in progress
Idle ==
    /\ heap = DefaultHeap
    /\ settings = [i \in Instances |-> [made |-> FALSE, dict |-> <<>>]]
    /\ settings_file = [i \in Instances |-> NoFile]
    /\ running = [p \in Apps |-> NotRunning]

Before == [categories |-> categories, transactions |-> transactions]

NoArgs == [none |-> TRUE]

\* what a call left behind: ret is its return value, raised says that an
\* exception left the method instead
Called(op, args, ret, raised) ==
    [op |-> op, args |-> args, ret |-> ret, raised |-> raised, before |-> Before]

Pairs == NameArgs \X CategoryTypeArgs

\* Database(db_path) on a new file: __init__ runs init_db on empty tables
Init ==
    /\ categories = _create_default_categories(EmptyTable)
    /\ transactions = EmptyTable
    /\ last = [op |-> "__init__", args |-> NoArgs, ret |-> None, raised |-> FALSE,
               before |-> [categories |-> EmptyTable, transactions |-> EmptyTable]]
    /\ first_id = [p \in Pairs |-> None]
    /\ nops = 0
    /\ Idle

\* ------------------------------------------------------------------ categories

init_db ==
    /\ nops < MaxOps
    /\ nops' = nops + 1
    /\ UNCHANGED <<heap, settings, settings_file, running>>
    /\ categories' = _create_default_categories(categories)
    /\ last' = Called("init_db", NoArgs, None, FALSE)
    /\ UNCHANGED <<transactions, first_id>>

\* the lookup compares the name alone
SelectCategoryId_NameOnly(cats, name, category_type) ==
    LET found == {i \in DOMAIN cats : cats[i].name = name}
    IN  IF found = {} THEN None ELSE Min(found)

\* SELECT id FROM categories WHERE name = ? AND type = ?, fetchone(): the table
\* is scanned in rowid order, so the row fetched is the one with the least id
SelectCategoryId(cats, name, category_type) ==
    LET found == {i \in DOMAIN cats : cats[i].name = name /\ cats[i].type = category_type}
    IN  IF found = {} THEN None ELSE Min(found)

add_category(name, color, category_type) ==
    LET existing == SelectCategoryId(categories, name, category_type)
        ret == IF existing # None THEN existing ELSE lastrowid(categories)
    IN  /\ nops < MaxOps
        /\ nops' = nops + 1
        /\ UNCHANGED <<heap, settings, settings_file, running>>
        /\ categories' =
              IF existing # None THEN categories
              ELSE Insert(categories, Category(name, color, category_type))
        /\ last' = Called("add_category",
                          [name |-> name, color |-> color, type |-> category_type], ret, FALSE)
        /\ first_id' =
              IF first_id[<<name, category_type>>] = None
              THEN [first_id EXCEPT ![<<name, category_type>>] = ret]
              ELSE first_id
        /\ UNCHANGED transactions

\* the pairs a call on category_id touches: the pair the row has, and for an
\* update the pair it is given
Touched(category_id, pairs) ==
    [p \in Pairs |-> IF first_id[p] = category_id \/ p \in pairs THEN None ELSE first_id[p]]

\* the UPDATE has no WHERE clause: every category row is rewritten
update_category_AllRows(category_id, name, color) ==
    LET rowcount == Cardinality(DOMAIN categories)
    IN  /\ nops < MaxOps
        /\ nops' = nops + 1
        /\ UNCHANGED <<heap, settings, settings_file, running>>
        /\ categories' = [i \in DOMAIN categories |->
                             [categories[i] EXCEPT !.name = name, !.color = color]]
        /\ last' = Called("update_category",
                          [category_id |-> category_id, name |-> name, color |-> color],
                          rowcount > 0, FALSE)
        /\ first_id' = [p \in Pairs |-> None]
        /\ UNCHANGED transactions

update_category(category_id, name, color) ==
    LET rowcount == IF category_id \in DOMAIN categories THEN 1 ELSE 0
    IN  /\ nops < MaxOps
        /\ nops' = nops + 1
        /\ UNCHANGED <<heap, settings, settings_file, running>>
        /\ categories' =
              IF category_id \in DOMAIN categories
              THEN [categories EXCEPT ![category_id].name = name, ![category_id].color = color]
              ELSE categories
        /\ last' = Called("update_category",
                          [category_id |-> category_id, name |-> name, color |-> color],
                          rowcount > 0, FALSE)
        /\ first_id' =
              IF category_id \in DOMAIN categories
              THEN Touched(category_id,
                           {p \in Pairs : p[1] = name /\ p[2] = categories[category_id].type})
              ELSE first_id
        /\ UNCHANGED transactions

\* the dependent rows are removed with the category instead of being detached
DetachTransactions_Cascade(txs, category_id) ==
    Delete(txs, {i \in DOMAIN txs : txs[i].category_id = category_id})

\* UPDATE transactions SET category_id = NULL WHERE category_id = ?
DetachTransactions(txs, category_id) ==
    [i \in DOMAIN txs |->
        IF txs[i].category_id = category_id THEN [txs[i] EXCEPT !.category_id = None] ELSE txs[i]]

\* the row count is taken to be positive whether or not a row matched
DeleteCategoryRow_AlwaysCounts(cats, category_id) ==
    [table |-> Delete(cats, {category_id}), rowcount |-> 1]

\* DELETE FROM categories WHERE id = ?, and the cursor's rowcount after it
DeleteCategoryRow(cats, category_id) ==
    [table |-> Delete(cats, {category_id}),
     rowcount |-> IF category_id \in DOMAIN cats THEN 1 ELSE 0]

delete_category(category_id) ==
    LET deleted == DeleteCategoryRow(categories, category_id)
    IN  /\ nops < MaxOps
        /\ nops' = nops + 1
        /\ UNCHANGED <<heap, settings, settings_file, running>>
        /\ transactions' = DetachTransactions(transactions, category_id)
        /\ categories' = deleted.table
        /\ last' = Called("delete_category", [category_id |-> category_id],
                          deleted.rowcount > 0, FALSE)
        /\ first_id' = Touched(category_id, {})

\* ------------------------------------------------------------------ transactions

Transaction(amount, category_id, date, description, type) ==
    [amount |-> amount, category_id |-> category_id, date |-> date,
     description |-> description, type |-> type]

\* the amount check lets zero through
ValidationError_AllowsZero(amount, transaction_type) ==
    \/ transaction_type \notin {"income", "expense"}
    \/ amount < 0

\* the type check is missing
ValidationError_AnyType(amount, transaction_type) == amount <= 0

\* the two checks that raise ValueError before anything is written
ValidationError(amount, transaction_type) ==
    \/ transaction_type \notin {"income", "expense"}
    \/ amount <= 0

\* add_transaction's date: None is now, a str that does not parse is now too
add_date(date) ==
    IF date.kind = "none" THEN Now
    ELSE IF date.kind = "str"
         THEN (IF strptime(date.text).ok THEN strptime(date.text).dt ELSE Now)
         ELSE date.dt

add_transaction(amount, category_id, description, transaction_type, date) ==
    LET args == TransactionArgs(amount, category_id, description, transaction_type, date)
    IN  /\ nops < MaxOps
        /\ nops' = nops + 1
        /\ UNCHANGED <<heap, settings, settings_file, running>>
        /\ IF ValidationError(amount, transaction_type)
           THEN /\ transactions' = transactions
                /\ last' = Called("add_transaction", args, None, FALSE)
           ELSE /\ transactions' =
                      Insert(transactions,
                             Transaction(amount, category_id, strftime(add_date(date)),
                                         description, transaction_type))
                /\ last' = Called("add_transaction", args, lastrowid(transactions), FALSE)
        /\ UNCHANGED <<categories, first_id>>

\* a str that does not parse becomes now, as add_transaction does it
update_date_Fallback(date) ==
    IF date.kind = "str"
    THEN (IF strptime(date.text).ok THEN strptime(date.text) ELSE [ok |-> TRUE, dt |-> Now])
    ELSE [ok |-> TRUE, dt |-> date.dt]

\* update_transaction's date: a str that does not parse raises ValueError
\* (ok = FALSE); anything that is neither a str nor a datetime has no strftime,
\* and the AttributeError is not among the exceptions the method catches
update_date(date) ==
    IF date.kind = "str" THEN strptime(date.text) ELSE [ok |-> TRUE, dt |-> date.dt]

update_transaction(transaction_id, amount, category_id, description, date, transaction_type) ==
    LET args == [transaction_id |-> transaction_id, amount |-> amount,
                 category_id |-> category_id, description |-> description,
                 type |-> transaction_type, date |-> date]
        invalid == ValidationError(amount, transaction_type)
        parsed == update_date(date)
        raises == ~invalid /\ date.kind = "none"
        rowcount == IF transaction_id \in DOMAIN transactions THEN 1 ELSE 0
    IN  /\ nops < MaxOps
        /\ nops' = nops + 1
        /\ UNCHANGED <<heap, settings, settings_file, running>>
        /\ IF invalid \/ raises \/ ~parsed.ok
           THEN /\ transactions' = transactions
                /\ last' = Called("update_transaction", args,
                                  IF raises THEN None ELSE FALSE, raises)
           ELSE /\ transactions' =
                      IF transaction_id \in DOMAIN transactions
                      THEN [transactions EXCEPT ![transaction_id] =
                              Transaction(amount, category_id, strftime(parsed.dt),
                                          description, transaction_type)]
                      ELSE transactions
                /\ last' = Called("update_transaction", args, rowcount > 0, FALSE)
        /\ UNCHANGED <<categories, first_id>>

\* DELETE FROM transactions WHERE id = ?, and the cursor's rowcount after it
DeleteTransactionRow(txs, transaction_id) ==
    [table |-> Delete(txs, {transaction_id}),
     rowcount |-> IF transaction_id \in DOMAIN txs THEN 1 ELSE 0]

delete_transaction(transaction_id) ==
    LET deleted == DeleteTransactionRow(transactions, transaction_id)
    IN  /\ nops < MaxOps
        /\ nops' = nops + 1
        /\ UNCHANGED <<heap, settings, settings_file, running>>
        /\ transactions' = deleted.table
        /\ last' = Called("delete_transaction", [transaction_id |-> transaction_id],
                          deleted.rowcount > 0, FALSE)
        /\ UNCHANGED <<categories, first_id>>

\* ------------------------------------------------------------------ queries

RECURSIVE SumAmount(_, _)
SumAmount(txs, ids) ==
    IF ids = {} THEN 0
    ELSE LET i == Min(ids) IN txs[i].amount + SumAmount(txs, ids \ {i})

\* SELECT SUM(amount) over the rows ids: NULL when there is no row
SelectSum(txs, ids) == [null |-> ids = {}, total |-> SumAmount(txs, ids)]

OfType(txs, type) == {i \in DOMAIN txs : txs[i].type = type}

\* the second query selects the income rows again
get_balance_SameQuery(txs) ==
    LET income_row == SelectSum(txs, OfType(txs, "income"))
        total_income == IF ~income_row.null THEN income_row.total ELSE 0
        expense_row == SelectSum(txs, OfType(txs, "income"))
        total_expense == IF ~expense_row.null THEN expense_row.total ELSE 0
    IN  total_income - total_expense

\* the value get_balance returns on the table txs
get_balance(txs) ==
    LET income_row == SelectSum(txs, OfType(txs, "income"))
        total_income == IF ~income_row.null THEN income_row.total ELSE 0
        expense_row == SelectSum(txs, OfType(txs, "expense"))
        total_expense == IF ~expense_row.null THEN expense_row.total ELSE 0
    IN  total_income - total_expense

\* the bounds callers pass to the aggregate queries: None, a str or a datetime
BoundArgs == {DateNone, DateStr(Text_2024_02_01), DateObj(2024, 1, 20)}

\* Python truth of a bound: None and the empty str are false
Truthy(date) == date.kind = "datetime" \/ (date.kind = "str" /\ date.text # <<>>)

\* a bound as the query parameter: a datetime is formatted, a str goes as it is
BoundText(date) == IF date.kind = "datetime" THEN strftime(date.dt) ELSE date.text

\* the date condition the aggregate queries build from their two bounds
date_condition(start_date, end_date, date) ==
    IF Truthy(start_date) /\ Truthy(end_date)
    THEN TextLeq(BoundText(start_date), date) /\ TextLeq(date, BoundText(end_date))
    ELSE IF Truthy(start_date) THEN TextLeq(BoundText(start_date), date)
    ELSE IF Truthy(end_date) THEN TextLeq(date, BoundText(end_date))
    ELSE TRUE

\* SELECT strftime('%Y-%m', date) AS month, type, SUM(amount) AS total ...
\* GROUP BY month, type: the set of rows
MonthRows(txs, start_date, end_date) ==
    LET matching == {i \in DOMAIN txs : date_condition(start_date, end_date, txs[i].date)}
        group(i) == {j \in matching :
                        /\ sqlite_strftime_month(txs[j].date) = sqlite_strftime_month(txs[i].date)
                        /\ txs[j].type = txs[i].type}
    IN  { [month |-> sqlite_strftime_month(txs[i].date), type |-> txs[i].type,
           total |-> SumAmount(txs, group(i))] : i \in matching }

\* ORDER BY month ASC: NULL sorts before every text
MonthLeq(a, b) == a = NULLText \/ (b # NULLText /\ TextLeq(a, b))

\* the orders fetchall() may deliver the rows in: ascending by month, rows of
\* one month in either order
RowOrders(rows) ==
    LET n == Cardinality(rows)
    IN  { f \in [1..n -> rows] :
            /\ \A a, b \in 1..n : a # b => f[a] # f[b]
            /\ \A a, b \in 1..n : a < b => MonthLeq(f[a].month, f[b].month) }

\* one pass of the loop over the rows: monthly_data, a dict, as the list of
\* its values in insertion order
FoldRow(monthly_data, row) ==
    LET known == \E k \in 1..Len(monthly_data) : monthly_data[k].month = row.month
        data == IF known THEN monthly_data
                ELSE Append(monthly_data,
                            [month |-> row.month, income |-> 0, expense |-> 0, balance |-> 0])
        k == CHOOSE k \in 1..Len(data) : data[k].month = row.month
        entry == IF row.type \in {"income", "expense"}
                 THEN [data[k] EXCEPT ![row.type] = row.total]
                 ELSE data[k] @@ (row.type :> row.total)
    IN  [data EXCEPT ![k] = [entry EXCEPT !.balance = entry.income - entry.expense]]

RECURSIVE FoldRows(_, _)
FoldRows(monthly_data, rows) ==
    IF rows = <<>> THEN monthly_data
    ELSE FoldRows(FoldRow(monthly_data, Head(rows)), Tail(rows))

Remove(seq, k) == SubSeq(seq, 1, k - 1) \o SubSeq(seq, k + 1, Len(seq))

RECURSIVE SortByMonth(_)
\* list.sort(key=lambda x: x['month']) of records whose months are all text
SortByMonth(data) ==
    IF data = <<>> THEN <<>>
    ELSE LET k == CHOOSE k \in 1..Len(data) :
                    \A j \in 1..Len(data) : TextLeq(data[k].month, data[j].month)
         IN  <<data[k]>> \o SortByMonth(Remove(data, k))

\* what get_transactions_by_month returns when the rows arrive in the order
\* rows: the sort compares a None month with a str month as soon as the list
\* has both, and that TypeError is not among the exceptions the method catches
get_transactions_by_month(rows) ==
    LET data == FoldRows(<<>>, rows)
        mixed == Len(data) >= 2 /\ \E k \in 1..Len(data) : data[k].month = NULLText
    IN  IF mixed THEN [raised |-> TRUE, result |-> <<>>]
        ELSE [raised |-> FALSE, result |-> SortByMonth(data)]

\* a column that may be NULL: <<>> is NULL (None), <<v>> is the value v
NULL == <<>>

\* SELECT t.*, c.name as category_name, c.color as category_color FROM
\* transactions t LEFT JOIN categories c ON t.category_id = c.id: the row of
\* transaction i, the two joined columns NULL when no category row matches
JoinedRow(txs, cats, i) ==
    LET joined == txs[i].category_id \in DOMAIN cats
    IN  [id |-> i, amount |-> txs[i].amount, category_id |-> txs[i].category_id,
         category_name |-> IF joined THEN <<cats[txs[i].category_id].name>> ELSE NULL,
         category_color |-> IF joined THEN <<cats[txs[i].category_id].color>> ELSE NULL,
         date |-> txs[i].date, description |-> txs[i].description, type |-> txs[i].type]

\* ... WHERE t.id = ?, fetchone(): the row as it is, None (none = TRUE) when
\* no transaction has that id
get_transaction_by_id(txs, cats, transaction_id) ==
    IF transaction_id \in DOMAIN txs
    THEN [none |-> FALSE, row |-> JoinedRow(txs, cats, transaction_id)]
    ELSE [none |-> TRUE, row |-> <<>>]

\* ORDER BY t.date DESC: the orders fetchall() may deliver the rows ids in,
\* the dates compared as text, rows of one date in either order
DateDescOrders(txs, ids) ==
    LET n == Cardinality(ids)
    IN  { f \in [1..n -> ids] :
            /\ \A a, b \in 1..n : a # b => f[a] # f[b]
            /\ \A a, b \in 1..n : a < b => TextLeq(txs[f[b]].date, txs[f[a]].date) }

\* the lists of joined rows a SELECT ... ORDER BY t.date DESC over the rows ids
\* may deliver
SelectOrdered(txs, cats, ids) ==
    { [k \in 1..Cardinality(ids) |-> JoinedRow(txs, cats, f[k])] : f \in DateDescOrders(txs, ids) }

\* row['category_name'] if row['category_name'] else "Без категории", and the
\* same for the color: None and the empty str are replaced
Substituted(row) ==
    [row EXCEPT
        !.category_name = IF @ \in {NULL, <<"">>} THEN <<"Bez kategorii">> ELSE @,
        !.category_color = IF @ \in {NULL, <<"">>} THEN <<"#607D8B">> ELSE @]

SubstitutedAll(lists) == { [k \in DOMAIN rows |-> Substituted(rows[k])] : rows \in lists }

\* the lists get_all_transactions may return
get_all_transactions(txs, cats) == SubstitutedAll(SelectOrdered(txs, cats, DOMAIN txs))

\* ... WHERE t.type = ?
get_transactions_by_type(txs, cats, transaction_type) ==
    SubstitutedAll(SelectOrdered(txs, cats, OfType(txs, transaction_type)))

\* an omitted end_date leaves the range open
get_transactions_by_date_range_OpenEnded(txs, cats, start_date, end_date) ==
    LET ids == IF start_date.kind = "none" THEN {}
               ELSE {i \in DOMAIN txs :
                        /\ TextLeq(BoundText(start_date), txs[i].date)
                        /\ end_date.kind # "none" => TextLeq(txs[i].date, BoundText(end_date))}
    IN  SubstitutedAll(SelectOrdered(txs, cats, ids))

\* ... WHERE t.date BETWEEN ? AND ?: a datetime bound is formatted, an end
\* date of None is today; a start date of None is bound as NULL, and the
\* comparison with NULL holds for no row
get_transactions_by_date_range(txs, cats, start_date, end_date) ==
    LET end == IF end_date.kind = "none" THEN strftime(Now) ELSE BoundText(end_date)
        ids == IF start_date.kind = "none" THEN {}
               ELSE {i \in DOMAIN txs : /\ TextLeq(BoundText(start_date), txs[i].date)
                                         /\ TextLeq(txs[i].date, end)}
    IN  SubstitutedAll(SelectOrdered(txs, cats, ids))

\* ... WHERE t.category_id = ?: the joined columns are returned as they are;
\* a category_id of None is bound as NULL and equals no row's value
get_transactions_by_category(txs, cats, category_id) ==
    SelectOrdered(txs, cats,
                  IF category_id = None THEN {}
                  ELSE {i \in DOMAIN txs : txs[i].category_id = category_id})

\* SELECT * FROM categories WHERE id = ?, fetchone(): the row as a dict, None
\* (none = TRUE) when no row has that id
get_category_by_id(cats, category_id) ==
    IF category_id \in DOMAIN cats
    THEN [none |-> FALSE, id |-> category_id, name |-> cats[category_id].name,
          color |-> cats[category_id].color, type |-> cats[category_id].type]
    ELSE [none |-> TRUE, id |-> None, name |-> "", color |-> "", type |-> ""]

\* SELECT COALESCE(c.id, 0), COALESCE(c.name, 'Без категории'),
\* COALESCE(c.color, '#607D8B'), SUM(t.amount) ... WHERE t.type = ? and the
\* date condition, GROUP BY the three columns: the set of rows
CategoryRows(txs, cats, transaction_type, start_date, end_date) ==
    LET matching == {i \in OfType(txs, transaction_type) :
                        date_condition(start_date, end_date, txs[i].date)}
        key(i) == IF txs[i].category_id \in DOMAIN cats
                  THEN [category_id |-> txs[i].category_id,
                        category_name |-> cats[txs[i].category_id].name,
                        category_color |-> cats[txs[i].category_id].color]
                  ELSE [category_id |-> 0, category_name |-> "Bez kategorii",
                        category_color |-> "#607D8B"]
    IN  { [category_id |-> key(i).category_id, category_name |-> key(i).category_name,
           category_color |-> key(i).category_color,
           total |-> SumAmount(txs, {j \in matching : key(j) = key(i)})] : i \in matching }

\* ORDER BY total DESC: the lists fetchall() may deliver, rows of one total in
\* either order
TotalDescOrders(rows) ==
    LET n == Cardinality(rows)
    IN  { f \in [1..n -> rows] :
            /\ \A a, b \in 1..n : a # b => f[a] # f[b]
            /\ \A a, b \in 1..n : a < b => f[b].total <= f[a].total }

\* the lists get_expenses_by_category may return
get_expenses_by_category(txs, cats, start_date, end_date) ==
    TotalDescOrders(CategoryRows(txs, cats, "expense", start_date, end_date))

\* the lists get_income_by_category may return
get_income_by_category(txs, cats, start_date, end_date) ==
    TotalDescOrders(CategoryRows(txs, cats, "income", start_date, end_date))

\* ------------------------------------------------------------------ reports

\* str.startswith
startswith(s, prefix) == Len(s) >= Len(prefix) /\ SubSeq(s, 1, Len(prefix)) = prefix

\* the prefix is the year alone
MonthPrefix_YearOnly(year, month) == Digits(year)

\* f"{year}-{month_str}" with month_str = f"{month:02d}"
MonthPrefix(year, month) == Digits(year) \o <<Dash>> \o Pad2(month)

RECURSIVE SumOfType(_, _)
\* sum(t['amount'] for t in transactions if t['type'] == type)
SumOfType(list, type) ==
    IF list = <<>> THEN 0
    ELSE (IF Head(list).type = type THEN Head(list).amount ELSE 0) + SumOfType(Tail(list), type)

RECURSIVE GroupByName(_, _, _)
\* the loop that adds each amount of a type to the dict entry of its
\* category_name: the dict as the list of its items in insertion order
GroupByName(list, type, items) ==
    IF list = <<>> THEN items
    ELSE LET t == Head(list)
             known == \E k \in 1..Len(items) : items[k].category = t.category_name
             with == IF known THEN items
                     ELSE Append(items, [category |-> t.category_name, amount |-> 0])
             k == CHOOSE k \in 1..Len(with) : with[k].category = t.category_name
         IN  IF t.type = type
             THEN GroupByName(Tail(list), type,
                              [with EXCEPT ![k].amount = @ + t.amount])
             ELSE GroupByName(Tail(list), type, items)

\* the items are left in insertion order
SortedByAmount_Unsorted(items) == items

RECURSIVE SortedByAmount(_)
\* sorted(items, key=lambda item: item[1], reverse=True): largest amount
\* first, items of one amount in the order they had
SortedByAmount(items) ==
    IF items = <<>> THEN <<>>
    ELSE LET k == CHOOSE k \in 1..Len(items) :
                    /\ \A j \in 1..Len(items) : items[j].amount <= items[k].amount
                    /\ \A j \in 1..(k - 1) : items[j].amount < items[k].amount
         IN  <<items[k]>> \o SortedByAmount(Remove(items, k))

\* datetime(year, month, 1).strftime('%B')
month_name(month) ==
    << "January", "February", "March", "April", "May", "June", "July", "August",
       "September", "October", "November", "December" >>[month]

\* ReportGenerator.generate_monthly_report on a list of transaction dicts
generate_monthly_report(list, year, month) ==
    LET monthly_transactions ==
            SelectSeq(list, LAMBDA t : startswith(t.date, MonthPrefix(year, month)))
        total_income == SumOfType(monthly_transactions, "income")
        total_expense == SumOfType(monthly_transactions, "expense")
    IN  [year |-> year, month |-> month, month_name |-> month_name(month),
         total_income |-> total_income, total_expense |-> total_expense,
         balance |-> total_income - total_expense,
         expenses_by_category |->
             SortedByAmount(GroupByName(monthly_transactions, "expense", <<>>)),
         income_by_category |->
             SortedByAmount(GroupByName(monthly_transactions, "income", <<>>)),
         transactions_count |-> Len(monthly_transactions)]

\* the prefix is the decade of the year
YearPrefix_Decade(year) == Digits(year \div 10)

\* f"{year}"
YearPrefix(year) == Digits(year)

\* range(1, 13)
Months == 1..12

\* ReportGenerator.generate_annual_report on a list of transaction dicts
generate_annual_report(list, year) ==
    LET annual_transactions ==
            SelectSeq(list, LAMBDA t : startswith(t.date, YearPrefix(year)))
        total_income == SumOfType(annual_transactions, "income")
        total_expense == SumOfType(annual_transactions, "expense")
        month_data(month) ==
            LET monthly_transactions ==
                    SelectSeq(annual_transactions,
                              LAMBDA t : startswith(t.date, MonthPrefix(year, month)))
                month_income == SumOfType(monthly_transactions, "income")
                month_expense == SumOfType(monthly_transactions, "expense")
            IN  [month_name |-> month_name(month), income |-> month_income,
                 expense |-> month_expense, balance |-> month_income - month_expense,
                 transactions_count |-> Len(monthly_transactions)]
    IN  [year |-> year, total_income |-> total_income, total_expense |-> total_expense,
         balance |-> total_income - total_expense,
         monthly_data |-> [month \in Months |-> month_data(month)],
         expenses_by_category |->
             SortedByAmount(GroupByName(annual_transactions, "expense", <<>>)),
         income_by_category |->
             SortedByAmount(GroupByName(annual_transactions, "income", <<>>)),
         transactions_count |-> Len(annual_transactions)]

\* amount / total * 100 if total > 0 else 0, as f"{percentage:.1f}" prints it:
\* in tenths of a percent
percentage(amount, total) ==
    IF total > 0 THEN (amount * 2000 + total) \div (2 * total) ELSE 0

Next ==
    \/ init_db
    \/ \E name \in NameArgs, color \in ColorArgs, category_type \in CategoryTypeArgs :
          add_category(name, color, category_type)
    \/ \E category_id \in CategoryIdArgs, name \in NameArgs, color \in ColorArgs :
          update_category(category_id, name, color)
    \/ \E category_id \in CategoryIdArgs : delete_category(category_id)
    \/ \E t \in TransactionInputs :
          add_transaction(t.amount, t.category_id, t.description, t.type, t.date)
    \/ \E transaction_id \in TransactionIdArgs, t \in TransactionInputs :
          update_transaction(transaction_id, t.amount, t.category_id, t.description, t.date,
                             t.type)
    \/ \E transaction_id \in TransactionIdArgs : delete_transaction(transaction_id)

Spec == Init /\ [][Next]_vars

\* ------------------------------------------------------------------ a store from earlier sessions

\* the default categories earlier delete_category calls removed from the
\* file: none, all or all but one of each type
DeletedArgs ==
    { E \cup I : E \in {{}, 1..8, 2..8}, I \in {{}, 9..13, 10..13} }

\* the transactions the file holds
StoredArgs ==
    { EmptyTable,
      <<Transaction(300, 1, strftime(datetime(2024, 1, 5)), "lunch", "expense"),
        Transaction(200, None, strftime(datetime(2024, 1, 20)), "", "income")>> }

\* a file on which earlier sessions deleted the categories of a set of
\* DeletedArgs, each delete_category detaching the transactions of its category
InitSeed ==
    \E deleted \in DeletedArgs, stored \in StoredArgs :
        /\ categories = Delete(_create_default_categories(EmptyTable), deleted)
        /\ transactions =
              [i \in DOMAIN stored |->
                  IF stored[i].category_id \in deleted
                  THEN [stored[i] EXCEPT !.category_id = None] ELSE stored[i]]
        /\ last = [op |-> "delete_category", args |-> NoArgs, ret |-> TRUE, raised |-> FALSE,
                   before |-> [categories |-> categories, transactions |-> transactions]]
        /\ first_id = [p \in Pairs |-> None]
        /\ nops = 0
        /\ Idle

\* Database(db_path) on that file (init_db) and the category operations
NextSeed ==
    \/ init_db
    \/ \E name \in NameArgs, color \in ColorArgs, category_type \in CategoryTypeArgs :
          add_category(name, color, category_type)
    \/ \E category_id \in CategoryIdArgs, name \in NameArgs, color \in ColorArgs :
          update_category(category_id, name, color)
    \/ \E category_id \in CategoryIdArgs : delete_category(category_id)

SpecSeed == InitSeed /\ [][NextSeed]_vars

\* SimpleDatabase._create_default_categories (simple_cli.py): one count of all
\* categories; the defaults of both types are inserted, in one transaction,
\* when that count is 0
SimpleDatabase_create_default_categories(cats) ==
    IF Cardinality(DOMAIN cats) = 0
    THEN executemany(executemany(cats, expense_categories), income_categories)
    ELSE cats

\* SimpleDatabase(db_path) of the text interface on the file: its init_db
SimpleDatabase_init_db ==
    /\ nops < MaxOps
    /\ nops' = nops + 1
    /\ UNCHANGED <<heap, settings, settings_file, running>>
    /\ categories' = SimpleDatabase_create_default_categories(categories)
    /\ last' = Called("SimpleDatabase.init_db", NoArgs, None, FALSE)
    /\ UNCHANGED <<transactions, first_id>>

\* both front ends open the file
NextFrontEnds ==
    \/ NextSeed
    \/ SimpleDatabase_init_db

SpecFrontEnds == InitSeed /\ [][NextFrontEnds]_vars

\* ------------------------------------------------------------------ a store with two categories

Text_2024_01_05 == <<50, 48, 50, 52, 45, 48, 49, 45, 48, 53>>   \* "2024-01-05"
Text_2024_01_10 == <<50, 48, 50, 52, 45, 48, 49, 45, 49, 48>>   \* "2024-01-10"

\* the three transactions added to it
ScenarioInputs ==
    { TransactionArgs(1000, 1, "", "income", DateStr(Text_2024_01_05)),
      TransactionArgs(300, 2, "", "expense", DateStr(Text_2024_01_10)),
      TransactionArgs(200, 2, "", "expense", DateStr(Text_2024_02_01)) }

\* a store on which the default categories were deleted and
\* add_category("Salary", ..., "income"), add_category("Food", ..., "expense")
\* were called: the two rows get the ids 1 and 2
InitScenario ==
    /\ categories = executemany(EmptyTable, << Category("Salary", "#000000", "income"),
                                               Category("Food", "#000000", "expense") >>)
    /\ transactions = EmptyTable
    /\ last = [op |-> "add_category",
               args |-> [name |-> "Food", color |-> "#000000", type |-> "expense"],
               ret |-> 2, raised |-> FALSE,
               before |-> [categories |-> Delete(categories, {2}),
                           transactions |-> EmptyTable]]
    /\ first_id = [p \in Pairs |-> IF p = <<"Food", "expense">> THEN 2 ELSE None]
    /\ nops = 0
    /\ Idle

NextScenario ==
    \/ \E t \in ScenarioInputs :
          add_transaction(t.amount, t.category_id, t.description, t.type, t.date)
    \/ \E transaction_id \in TransactionIdArgs, t \in ScenarioInputs :
          update_transaction(transaction_id, t.amount, t.category_id, t.description, t.date,
                             t.type)
    \/ \E transaction_id \in TransactionIdArgs : delete_transaction(transaction_id)

SpecScenario == InitScenario /\ [][NextScenario]_vars

\* ------------------------------------------------------------------ the report dialog

\* the years and months the report dialog offers: the year box runs from 2000
\* to the current year
YearArgs == {2023, 2024}
MonthArgs == {1, 2, 12}

\* the most transactions a store holds when a report is made
MaxRows == 3

\* the transactions such a store holds: several categories in one month, the
\* name Prochee under both types, no category, a category id without a row,
\* an expense booked on the income category Prochee
ReportRows ==
    { Transaction(300, 1, strftime(datetime(2024, 1, 5)), "lunch", "expense"),
      Transaction(200, 2, strftime(datetime(2024, 1, 10)), "", "expense"),
      Transaction(200, 8, strftime(datetime(2024, 2, 1)), "", "expense"),
      Transaction(1000, 9, strftime(datetime(2024, 1, 5)), "", "income"),
      Transaction(300, 13, strftime(datetime(2023, 12, 31)), "", "income"),
      Transaction(200, None, strftime(datetime(2024, 1, 20)), "", "income"),
      Transaction(300, 77, strftime(datetime(2024, 12, 1)), "", "expense"),
      Transaction(200, 13, strftime(datetime(2024, 2, 1)), "", "expense") }

\* a store with the default categories to which earlier add_transaction calls
\* added up to MaxRows different rows of ReportRows
InitReport ==
    \E n \in 0..MaxRows :
      \E rows \in [1..n -> ReportRows] :
        /\ \A a, b \in 1..n : a # b => rows[a] # rows[b]
        /\ categories = _create_default_categories(EmptyTable)
        /\ transactions = executemany(EmptyTable, rows)
        /\ last = [op |-> "add_transaction", args |-> NoArgs, ret |-> n, raised |-> FALSE,
                   before |-> [categories |-> categories, transactions |-> transactions]]
        /\ first_id = [p \in Pairs |-> None]
        /\ nops = 0
        /\ Idle

\* the report dialog: all_transactions = self.db.get_all_transactions(), then
\* the report of the selected year and month. A report leaves the store as it
\* is; a behaviour is followed up to its first report.
monthly_report(year, month) ==
    \E list \in get_all_transactions(transactions, categories) :
        /\ nops < MaxOps
        /\ nops' = MaxOps
        /\ UNCHANGED <<heap, settings, settings_file, running>>
        /\ last' = Called("generate_monthly_report",
                          [transactions |-> list, year |-> year, month |-> month],
                          generate_monthly_report(list, year, month), FALSE)
        /\ UNCHANGED <<categories, transactions, first_id>>

annual_report(year) ==
    \E list \in get_all_transactions(transactions, categories) :
        /\ nops < MaxOps
        /\ nops' = MaxOps
        /\ UNCHANGED <<heap, settings, settings_file, running>>
        /\ last' = Called("generate_annual_report", [transactions |-> list, year |-> year],
                          generate_annual_report(list, year), FALSE)
        /\ UNCHANGED <<categories, transactions, first_id>>

NextReport ==
    \/ \E year \in YearArgs, month \in MonthArgs : monthly_report(year, month)
    \/ \E year \in YearArgs : annual_report(year)

SpecReport == InitReport /\ [][NextReport]_vars

\* ------------------------------------------------------------------ store failures

\* the data methods, each with what its except sqlite3.Error branch returns
ExceptReturn ==
    [add_category |-> "None", update_category |-> "False", delete_category |-> "False",
     get_categories |-> "[]", get_category_by_id |-> "None",
     add_transaction |-> "None", update_transaction |-> "False",
     delete_transaction |-> "False", get_transaction_by_id |-> "None",
     get_all_transactions |-> "[]", get_transactions_by_type |-> "[]",
     get_transactions_by_date_range |-> "[]", get_transactions_by_category |-> "[]",
     get_expenses_by_category |-> "[]", get_income_by_category |-> "[]",
     get_transactions_by_month |-> "[]", get_balance |-> "0"]

\* where in a method sqlite3 raises: in sqlite3.connect, in conn.cursor(), or
\* in a statement or the commit inside the try block
FaultPoints == {"get_connection", "cursor", "execute"}

\* conn = self.get_connection() and cursor = conn.cursor() stand before the
\* try block: an error there leaves the method as an exception; an error
\* inside the try block is caught and the except branch returns. Nothing was
\* committed, and conn.close() drops what was written. A behaviour is followed
\* up to its first failing call.
store_error(method, at) ==
    LET caught == at = "execute"
    IN  /\ nops < MaxOps
        /\ nops' = MaxOps
        /\ UNCHANGED <<heap, settings, settings_file, running>>
        /\ last' = Called(method, [fault |-> at, closed |-> at # "cursor"],
                          IF caught THEN ExceptReturn[method] ELSE "sqlite3.Error", ~caught)
        /\ UNCHANGED <<categories, transactions, first_id>>

\* every statement is committed as it is executed
close_Autocommit(committed, pending) == pending

\* conn.close() on a connection with statements executed and not committed:
\* the open transaction is rolled back, the file holds what was committed
close(committed, pending) == committed

\* the statements of delete_category's try block in which sqlite3 may raise
DeleteFaultPoints == {"detach", "delete", "commit"}

\* delete_category in which the UPDATE, the DELETE or the commit raises
\* sqlite3.Error: the statements before it were executed on the connection,
\* the except branch returns False and finally closes the connection
delete_category_error(category_id, at) ==
    LET detached == IF at = "detach" THEN transactions
                    ELSE DetachTransactions(transactions, category_id)
        deleted == IF at \in {"detach", "delete"} THEN categories
                   ELSE DeleteCategoryRow(categories, category_id).table
        stored == close(Before, [categories |-> deleted, transactions |-> detached])
    IN  /\ nops < MaxOps
        /\ nops' = MaxOps
        /\ UNCHANGED <<heap, settings, settings_file, running>>
        /\ categories' = stored.categories
        /\ transactions' = stored.transactions
        /\ last' = Called("delete_category",
                          [category_id |-> category_id, fault |-> at, closed |-> TRUE],
                          ExceptReturn["delete_category"], FALSE)
        /\ UNCHANGED first_id

\* the places of init_db in which sqlite3 may raise: the two statements before
\* the body, the CREATE TABLE statements with their commit, and the two
\* halves of _create_default_categories
InitFaultPoints == {"get_connection", "cursor", "create", "seed_expense", "seed_income"}

\* init_db in which sqlite3 raises: the method has no try block, so the
\* exception leaves it and conn.close() on its last line is not reached; the
\* expense defaults are committed before the income half begins
init_db_error(at) ==
    /\ nops < MaxOps
    /\ nops' = MaxOps
    /\ UNCHANGED <<heap, settings, settings_file, running>>
    /\ categories' =
          IF at = "seed_income" /\ CountOfType(categories, "expense") = 0
          THEN executemany(categories, expense_categories)
          ELSE categories
    /\ last' = Called("init_db", [fault |-> at, closed |-> at = "get_connection"],
                      "sqlite3.Error", TRUE)
    /\ UNCHANGED <<transactions, first_id>>

NextFault ==
    \/ Next
    \/ \E method \in DOMAIN ExceptReturn, at \in FaultPoints : store_error(method, at)
    \/ \E category_id \in CategoryIdArgs, at \in DeleteFaultPoints :
          delete_category_error(category_id, at)
    \/ \E at \in InitFaultPoints : init_db_error(at)

SpecFault == Init /\ [][NextFault]_vars

\* ------------------------------------------------------------------ class Settings

SectionArgs == {"interface", "window"}
KeyArgs == {"theme"}
ValueArgs == {"Dark"}

\* a settings_file that json.load does not parse
Unparsable == [state |-> "unparsable", document |-> <<>>]

\* dict.copy(): a new dict with the same values, so the inner dicts of the
\* copy are the objects of the original
copy(dict) == dict

\* d[key] = value
Put(d, key, value) == [k \in DOMAIN d \cup {key} |-> IF k = key THEN value ELSE d[k]]

\* what a dict of inner dict objects holds: section -> (key -> value)
Document(h, dict) == [section \in DOMAIN dict |-> h[dict[section]]]

RECURSIVE Parsed(_, _, _, _)
\* json.load: every inner dict of the document is a new object
Parsed(h, document, sections, dict) ==
    IF sections = {} THEN [heap |-> h, dict |-> dict]
    ELSE LET section == CHOOSE x \in sections : TRUE
         IN  Parsed(Append(h, document[section]), document, sections \ {section},
                    Put(dict, section, Len(h) + 1))

\* what load_settings returns: the parsed file, and the copy of
\* DEFAULT_SETTINGS when the file does not exist or json.load raises
Loaded(instance) ==
    IF settings_file[instance].state = "json"
    THEN Parsed(heap, settings_file[instance].document,
                DOMAIN settings_file[instance].document, <<>>)
    ELSE [heap |-> heap, dict |-> copy(DEFAULT_SETTINGS)]

\* Settings(settings_file): self.settings = self.load_settings()
Settings(instance) ==
    /\ nops < MaxOps
    /\ nops' = nops + 1
    /\ ~settings[instance].made
    /\ heap' = Loaded(instance).heap
    /\ settings' = [settings EXCEPT ![instance] = [made |-> TRUE, dict |-> Loaded(instance).dict]]
    /\ last' = Called("Settings", [instance |-> instance], None, FALSE)
    /\ UNCHANGED <<categories, transactions, first_id, settings_file, running>>

\* load_settings() called on an instance: the dict is returned and dropped
load_settings(instance) ==
    /\ nops < MaxOps
    /\ nops' = nops + 1
    /\ settings[instance].made
    /\ last' = Called("load_settings", [instance |-> instance],
                      Document(Loaded(instance).heap, Loaded(instance).dict), FALSE)
    /\ UNCHANGED <<categories, transactions, first_id, heap, settings, settings_file, running>>

\* set(section, key, value): a section the dict does not have gets a new
\* empty dict; the value is written into the section's dict object
set(instance, section, key, value) ==
    LET dict == settings[instance].dict
        new == section \notin DOMAIN dict
        h == IF new THEN Append(heap, <<>>) ELSE heap
        d == IF new THEN Put(dict, section, Len(heap) + 1) ELSE dict
    IN  /\ nops < MaxOps
        /\ nops' = nops + 1
        /\ settings[instance].made
        /\ heap' = [h EXCEPT ![d[section]] = Put(@, key, value)]
        /\ settings' = [settings EXCEPT ![instance].dict = d]
        /\ last' = Called("set", [instance |-> instance, section |-> section, key |-> key,
                                  value |-> value], TRUE, FALSE)
        /\ UNCHANGED <<categories, transactions, first_id, settings_file, running>>

\* save_settings(): json.dump of self.settings into the file, True; False when
\* the file cannot be written
save_settings(instance) ==
    \E written \in BOOLEAN :
        /\ nops < MaxOps
        /\ nops' = nops + 1
        /\ settings[instance].made
        /\ settings_file' =
              IF written
              THEN [settings_file EXCEPT ![instance] =
                      [state |-> "json", document |-> Document(heap, settings[instance].dict)]]
              ELSE settings_file
        /\ last' = Called("save_settings", [instance |-> instance], written, FALSE)
        /\ UNCHANGED <<categories, transactions, first_id, heap, settings, running>>

\* reset_to_defaults(): self.settings = self.DEFAULT_SETTINGS.copy(), then
\* save_settings()
reset_to_defaults(instance) ==
    \E written \in BOOLEAN :
        /\ nops < MaxOps
        /\ nops' = nops + 1
        /\ settings[instance].made
        /\ settings' = [settings EXCEPT ![instance].dict = copy(DEFAULT_SETTINGS)]
        /\ settings_file' =
              IF written
              THEN [settings_file EXCEPT ![instance] =
                      [state |-> "json", document |-> Document(heap, copy(DEFAULT_SETTINGS))]]
              ELSE settings_file
        /\ last' = Called("reset_to_defaults", [instance |-> instance], written, FALSE)
        /\ UNCHANGED <<categories, transactions, first_id, heap, running>>

\* the application starts with each settings_file missing or unparsable
InitSettings ==
    /\ categories = _create_default_categories(EmptyTable)
    /\ transactions = EmptyTable
    /\ last = [op |-> "__init__", args |-> NoArgs, ret |-> None, raised |-> FALSE,
               before |-> [categories |-> EmptyTable, transactions |-> EmptyTable]]
    /\ first_id = [p \in Pairs |-> None]
    /\ nops = 0
    /\ heap = DefaultHeap
    /\ settings = [i \in Instances |-> [made |-> FALSE, dict |-> <<>>]]
    /\ settings_file \in [Instances -> {NoFile, Unparsable}]
    /\ running = [p \in Apps |-> NotRunning]

NextSettings ==
    \/ \E instance \in Instances : Settings(instance)
    \/ \E instance \in Instances : load_settings(instance)
    \/ \E instance \in Instances, section \in SectionArgs, key \in KeyArgs,
          value \in ValueArgs : set(instance, section, key, value)
    \/ \E instance \in Instances : save_settings(instance)
    \/ \E instance \in Instances : reset_to_defaults(instance)

SpecSettings == InitSettings /\ [][NextSettings]_vars

\* ------------------------------------------------------------------ two application instances

\* Two processes run the application on one file. Each has a Database object
\* of its own; a call runs statement by statement and the statements of the
\* two processes interleave. SQLite lets one connection write at a time: the
\* INSERT of a process opens its transaction and takes the write lock, which
\* commit releases; a SELECT reads the committed rows.

\* the statements of init_db in order, with those of
\* _create_default_categories
InitStatements ==
    << "create_categories", "create_transactions", "commit",
       "count_expense", "insert_expense", "commit_expense",
       "count_income", "insert_income", "commit_income", "close" >>

\* the statement that follows statement pc in init_db
After(pc) == InitStatements[(CHOOSE k \in DOMAIN InitStatements : InitStatements[k] = pc) + 1]

\* the process is between two calls on its Database object
Ready == [pc |-> "ready"]

\* another process holds the write lock: it has inserted and not committed
Locked(p) == \E q \in Apps \ {p} : "pending" \in DOMAIN running[q]

\* a statement of a process leaves the other variables as they are
Statement ==
    UNCHANGED <<transactions, first_id, nops, heap, settings, settings_file>>

\* Database(db_path): __init__ calls init_db, which opens its connection
Database_init_db(p) ==
    /\ running[p].pc = "idle"
    /\ nops < MaxOps
    /\ nops' = nops + 1
    /\ running' = [running EXCEPT ![p] = [pc |-> "create_categories", op |-> "init_db"]]
    /\ UNCHANGED <<categories, transactions, last, first_id, heap, settings, settings_file>>

\* CREATE TABLE IF NOT EXISTS categories, ... transactions, conn.commit():
\* no row is touched
execute_create(p) ==
    /\ running[p].pc \in {"create_categories", "create_transactions", "commit"}
    /\ running' = [running EXCEPT ![p].pc = After(@)]
    /\ UNCHANGED <<categories, last>>
    /\ Statement

\* SELECT COUNT(*) FROM categories WHERE type = ... and the test of the count:
\* the INSERT is next when the count is 0
execute_count(p) ==
    LET pc == running[p].pc
        type == IF pc = "count_expense" THEN "expense" ELSE "income"
    IN  /\ pc \in {"count_expense", "count_income"}
        /\ running' = [running EXCEPT ![p].pc =
                          IF CountOfType(categories, type) = 0 THEN After(pc)
                          ELSE After(After(After(pc)))]
        /\ UNCHANGED <<categories, last>>
        /\ Statement

\* cursor.executemany(INSERT ..., expense_categories or income_categories):
\* the rows are written in the transaction of the process
executemany_defaults(p) ==
    LET pc == running[p].pc
        rows == IF pc = "insert_expense" THEN expense_categories ELSE income_categories
    IN  /\ pc \in {"insert_expense", "insert_income"}
        /\ ~Locked(p)
        /\ running' = [running EXCEPT ![p] =
                          [pc |-> After(pc), op |-> "init_db",
                           pending |-> executemany(categories, rows)]]
        /\ UNCHANGED <<categories, last>>
        /\ Statement

\* conn.commit() after the executemany
commit_defaults(p) ==
    /\ running[p].pc \in {"commit_expense", "commit_income"}
    /\ categories' = running[p].pending
    /\ running' = [running EXCEPT ![p] = [pc |-> After(running[p].pc), op |-> "init_db"]]
    /\ UNCHANGED last
    /\ Statement

\* conn.close(): init_db and the constructor return
close_init_db(p) ==
    /\ running[p].pc = "close"
    /\ running' = [running EXCEPT ![p] = Ready]
    /\ last' = Called("init_db", [app |-> p], None, FALSE)
    /\ UNCHANGED categories
    /\ Statement

\* add_category(name, color, category_type) is called: connection and cursor
add_category_call(p, name, color, category_type) ==
    /\ running[p].pc = "ready"
    /\ nops < MaxOps
    /\ nops' = nops + 1
    /\ running' = [running EXCEPT ![p] =
                      [pc |-> "select", op |-> "add_category",
                       args |-> [name |-> name, color |-> color, type |-> category_type]]]
    /\ UNCHANGED <<categories, transactions, last, first_id, heap, settings, settings_file>>

\* SELECT id FROM categories WHERE name = ? AND type = ?, fetchone()
execute_select(p) ==
    LET r == running[p]
        existing == SelectCategoryId(categories, r.args.name, r.args.type)
    IN  /\ r.pc = "select"
        /\ running' = [running EXCEPT ![p] =
                          IF existing # None
                          THEN [pc |-> "return", op |-> r.op, args |-> r.args, ret |-> existing]
                          ELSE [pc |-> "insert", op |-> r.op, args |-> r.args]]
        /\ UNCHANGED <<categories, last>>
        /\ Statement

\* INSERT INTO categories (name, color, type) VALUES (?, ?, ?)
execute_insert(p) ==
    LET r == running[p]
    IN  /\ r.pc = "insert"
        /\ ~Locked(p)
        /\ running' = [running EXCEPT ![p] =
                          [pc |-> "commit", op |-> r.op, args |-> r.args,
                           ret |-> lastrowid(categories),
                           pending |-> Insert(categories,
                                              Category(r.args.name, r.args.color, r.args.type))]]
        /\ UNCHANGED <<categories, last>>
        /\ Statement

\* conn.commit() after the INSERT
commit_insert(p) ==
    LET r == running[p]
    IN  /\ r.pc = "commit" /\ r.op = "add_category"
        /\ categories' = r.pending
        /\ running' = [running EXCEPT ![p] =
                          [pc |-> "return", op |-> r.op, args |-> r.args, ret |-> r.ret]]
        /\ UNCHANGED last
        /\ Statement

\* return existing['id'] or return cursor.lastrowid, through finally: conn.close()
return_add_category(p) ==
    LET r == running[p]
    IN  /\ r.pc = "return"
        /\ running' = [running EXCEPT ![p] = Ready]
        /\ last' = Called("add_category",
                          [name |-> r.args.name, color |-> r.args.color, type |-> r.args.type,
                           app |-> p], r.ret, FALSE)
        /\ UNCHANGED categories
        /\ Statement

\* an INSERT while the other process holds the write lock longer than the
\* connection waits: sqlite3.OperationalError 'database is locked'.
\* add_category catches it and returns None; init_db lets it out, and the
\* application has no Database object
database_is_locked(p) ==
    LET r == running[p]
    IN  /\ r.pc \in {"insert", "insert_expense", "insert_income"}
        /\ Locked(p)
        /\ running' = [running EXCEPT ![p] = IF r.op = "init_db" THEN NotRunning ELSE Ready]
        /\ last' = Called(r.op, [app |-> p, fault |-> "insert", closed |-> r.op # "init_db"],
                          IF r.op = "init_db" THEN "sqlite3.Error" ELSE "None",
                          r.op = "init_db")
        /\ UNCHANGED categories
        /\ Statement

\* a new file on which neither process has made its Database object, or a
\* seeded file on which both have
InitApps ==
    \E fresh \in BOOLEAN :
        /\ categories = IF fresh THEN EmptyTable ELSE _create_default_categories(EmptyTable)
        /\ transactions = EmptyTable
        /\ last = [op |-> "__init__", args |-> NoArgs, ret |-> None, raised |-> FALSE,
                   before |-> [categories |-> EmptyTable, transactions |-> EmptyTable]]
        /\ first_id = [p \in Pairs |-> None]
        /\ nops = 0
        /\ heap = DefaultHeap
        /\ settings = [i \in Instances |-> [made |-> FALSE, dict |-> <<>>]]
        /\ settings_file = [i \in Instances |-> NoFile]
        /\ running = [p \in Apps |-> IF fresh THEN NotRunning ELSE Ready]

NextApps ==
    \/ \E p \in Apps : Database_init_db(p)
    \/ \E p \in Apps : execute_create(p)
    \/ \E p \in Apps : execute_count(p)
    \/ \E p \in Apps : executemany_defaults(p)
    \/ \E p \in Apps : commit_defaults(p)
    \/ \E p \in Apps : close_init_db(p)
    \/ \E p \in Apps, name \in NameArgs, color \in ColorArgs, category_type \in CategoryTypeArgs :
          add_category_call(p, name, color, category_type)
    \/ \E p \in Apps : execute_select(p)
    \/ \E p \in Apps : execute_insert(p)
    \/ \E p \in Apps : commit_insert(p)
    \/ \E p \in Apps : return_add_category(p)
    \/ \E p \in Apps : database_is_locked(p)

SpecApps == InitApps /\ [][NextApps]_vars

\* ------------------------------------------------------------------ claims

SamePair(cats, i, name, type) == cats[i].name = name /\ cats[i].type = type

\* C1: after every add_category(name, color, type) exactly one category row has
\* that (name, type), and the call returned what the first add_category of that
\* pair returned (first meaning: since a call last touched that pair's row).
C1_OneRowSameId ==
    last.op = "add_category" =>
        /\ Cardinality({i \in DOMAIN categories :
                           SamePair(categories, i, last.args.name, last.args.type)}) = 1
        /\ last.ret = first_id[<<last.args.name, last.args.type>>]

\* C2: no two category rows have the same (name, type) pair.
C2_NoDuplicatePair ==
    \A i, j \in DOMAIN categories :
        i # j => ~SamePair(categories, j, categories[i].name, categories[i].type)

\* C3: add_transaction with amount <= 0 or with a type that is neither income
\* nor expense returns None and leaves the transactions table as it was.
C3_AddRejects ==
    (/\ last.op = "add_transaction"
     /\ (last.args.amount <= 0 \/ last.args.type \notin {"income", "expense"}))
    => /\ ~last.raised
       /\ last.ret = None
       /\ transactions = last.before.transactions

C3_Witness ==
    /\ last.op = "add_transaction"
    /\ last.args.amount <= 0
    /\ last.args.type \in {"income", "expense"}
    /\ last.before.transactions # EmptyTable

\* C4: update_transaction with amount <= 0, with a type outside income/expense
\* or with a date str that does not parse returns False and changes no row.
C4_UpdateRejects ==
    (/\ last.op = "update_transaction"
     /\ \/ last.args.amount <= 0
        \/ last.args.type \notin {"income", "expense"}
        \/ (last.args.date.kind = "str" /\ ~strptime(last.args.date.text).ok))
    => /\ ~last.raised
       /\ last.ret = FALSE
       /\ transactions = last.before.transactions
       /\ categories = last.before.categories

C4_Witness ==
    /\ last.op = "update_transaction"
    /\ last.args.transaction_id \in DOMAIN last.before.transactions
    /\ last.args.amount > 0
    /\ last.args.type \in {"income", "expense"}
    /\ last.args.date.kind = "str"
    /\ ~strptime(last.args.date.text).ok

\* C5: every stored transaction has amount > 0 and type income or expense.
C5_StoredValid ==
    \A i \in DOMAIN transactions :
        transactions[i].amount > 0 /\ transactions[i].type \in {"income", "expense"}

C5_Witness ==
    /\ last.op = "update_transaction"
    /\ last.args.transaction_id \in DOMAIN transactions
    /\ last.args.type \notin {"income", "expense"}
    /\ Cardinality(DOMAIN transactions) >= 2

\* the text YYYY-MM-DD of a day
ISOText(dt) == Pad4(dt.year) \o <<Dash>> \o Pad2(dt.month) \o <<Dash>> \o Pad2(dt.day)

\* a text that reads YYYY-MM-DD and names a day of the calendar
IsISODate(s) ==
    /\ Len(s) = 10
    /\ s[5] = Dash /\ s[8] = Dash
    /\ AllDigits(SubSeq(s, 1, 4)) /\ AllDigits(SubSeq(s, 6, 7)) /\ AllDigits(SubSeq(s, 9, 10))
    /\ Number(SubSeq(s, 1, 4)) >= 1
    /\ Number(SubSeq(s, 6, 7)) \in 1..12
    /\ Number(SubSeq(s, 9, 10)) >= 1
    /\ Number(SubSeq(s, 9, 10)) <= DaysInMonth(Number(SubSeq(s, 1, 4)), Number(SubSeq(s, 6, 7)))

\* the day a date argument gives, now when it gives none
GivenDay(date) ==
    IF date.kind = "datetime" THEN date.dt
    ELSE IF date.kind = "str" /\ strptime(date.text).ok THEN strptime(date.text).dt
    ELSE Now

\* C6: every stored date is a valid YYYY-MM-DD text; add_transaction stores the
\* given day, or the current day when given no date or a str that does not
\* parse; update_transaction writes the parsed day.
C6_StoredDates ==
    /\ \A i \in DOMAIN transactions : IsISODate(transactions[i].date)
    /\ (last.op = "add_transaction" /\ ~ValidationError(last.args.amount, last.args.type))
       => /\ last.ret \in DOMAIN transactions
          /\ transactions[last.ret].date = ISOText(GivenDay(last.args.date))
    /\ (last.op = "update_transaction" /\ ~last.raised /\ last.ret = TRUE)
       => transactions[last.args.transaction_id].date = ISOText(GivenDay(last.args.date))

\* C7: delete_category(id) of an existing category keeps every transaction;
\* those that referenced it have category_id null and are otherwise as before,
\* all others are as before.
C7_DeleteDetaches ==
    (last.op = "delete_category" /\ last.args.category_id \in DOMAIN last.before.categories)
    => /\ DOMAIN transactions = DOMAIN last.before.transactions
       /\ \A i \in DOMAIN last.before.transactions :
             LET old == last.before.transactions[i]
             IN  IF old.category_id = last.args.category_id
                 THEN /\ transactions[i].category_id = None
                      /\ transactions[i].amount = old.amount
                      /\ transactions[i].date = old.date
                      /\ transactions[i].description = old.description
                      /\ transactions[i].type = old.type
                 ELSE transactions[i] = old

C7_Witness ==
    /\ last.op = "delete_category"
    /\ last.args.category_id \in DOMAIN last.before.categories
    /\ \E i, j \in DOMAIN last.before.transactions :
          /\ last.before.transactions[i].category_id = last.args.category_id
          /\ last.before.transactions[j].category_id \notin {None, last.args.category_id}

\* C8: delete_category(id) returns True exactly when a category row with that
\* id existed before the call and none exists after it; delete_transaction(id)
\* returns True exactly when a transaction row with that id was removed.
C8_DeleteReturns ==
    /\ last.op = "delete_category"
       => (last.ret = TRUE <=> (/\ last.args.category_id \in DOMAIN last.before.categories
                                /\ last.args.category_id \notin DOMAIN categories))
    /\ last.op = "delete_transaction"
       => (last.ret = TRUE <=> (/\ last.args.transaction_id \in DOMAIN last.before.transactions
                                /\ last.args.transaction_id \notin DOMAIN transactions))

C8_Witness ==
    /\ last.op = "delete_category"
    /\ last.ret = FALSE
    /\ last.args.category_id \notin DOMAIN last.before.categories
    /\ \E i \in DOMAIN last.before.transactions :
          last.before.transactions[i].category_id = last.args.category_id

RECURSIVE SignedTotal(_, _)
\* income counted up and expense counted down over the rows 1..n
SignedTotal(txs, n) ==
    IF n = 0 THEN 0
    ELSE SignedTotal(txs, n - 1)
         + (IF n \notin DOMAIN txs THEN 0
            ELSE IF txs[n].type = "income" THEN txs[n].amount
            ELSE IF txs[n].type = "expense" THEN 0 - txs[n].amount
            ELSE 0)

\* C9: get_balance() is the sum of the stored income amounts minus the sum of
\* the stored expense amounts, 0 on an empty table.
C9_Balance ==
    get_balance(transactions) =
        SignedTotal(transactions, IF DOMAIN transactions = {} THEN 0 ELSE Max(DOMAIN transactions))

C9_Witness ==
    /\ OfType(transactions, "income") # {}
    /\ Cardinality(OfType(transactions, "expense")) >= 2
    /\ get_balance(transactions) < 0

\* the day a stored text stands for: its three numbers
DayOfText(s) ==
    LET ds == Dashes(s)
        i == Min(ds)
        j == Max(ds)
    IN  datetime(Number(SubSeq(s, 1, i - 1)), Number(SubSeq(s, i + 1, j - 1)),
                 Number(SubSeq(s, j + 1, Len(s))))

DayNumber(dt) == dt.year * 10000 + dt.month * 100 + dt.day

MonthNumber(dt) == dt.year * 100 + dt.month

MonthText(n) == Pad4(n \div 100) \o <<Dash>> \o Pad2(n % 100)

\* the transactions on a day inside the inclusive bounds, each bound optional
InBounds(txs, start_date, end_date) ==
    {i \in DOMAIN txs :
        /\ Truthy(start_date) => DayNumber(GivenDay(start_date)) <= DayNumber(DayOfText(txs[i].date))
        /\ Truthy(end_date) => DayNumber(DayOfText(txs[i].date)) <= DayNumber(GivenDay(end_date))}

\* C10: get_transactions_by_month returns one record per calendar month with a
\* transaction inside the bounds, in ascending month order, with income and
\* expense the sums of that month's amounts of each type and balance their
\* difference, in whatever order the (month, type) rows arrive.
C10_ByMonth ==
    \A start_date, end_date \in BoundArgs :
      \A rows \in RowOrders(MonthRows(transactions, start_date, end_date)) :
        LET got == get_transactions_by_month(rows)
            inside == InBounds(transactions, start_date, end_date)
            month(i) == MonthNumber(DayOfText(transactions[i].date))
            months == {month(i) : i \in inside}
            of(m, type) == {i \in inside : month(i) = m /\ transactions[i].type = type}
        IN  /\ ~got.raised
            /\ Len(got.result) = Cardinality(months)
            /\ \A k \in 1..Len(got.result) :
                  \E m \in months :
                      /\ got.result[k].month = MonthText(m)
                      /\ got.result[k].income = SumAmount(transactions, of(m, "income"))
                      /\ got.result[k].expense = SumAmount(transactions, of(m, "expense"))
                      /\ got.result[k].balance = got.result[k].income - got.result[k].expense
            /\ \A k, l \in 1..Len(got.result) :
                  k < l => TextLess(got.result[k].month, got.result[l].month)

\* C11: after every add_category(name, color, type) that returned an id,
\* get_category_by_id(id) returns the name, the color and the type the call
\* was given.
C11_FetchedAsGiven ==
    (last.op = "add_category" /\ last.ret # None)
    => LET c == get_category_by_id(categories, last.ret)
       IN  /\ ~c.none
           /\ c.name = last.args.name
           /\ c.color = last.args.color
           /\ c.type = last.args.type

\* the least row of cats with that (name, type), None when there is none
FirstOfPair(cats, name, type) ==
    LET found == {i \in DOMAIN cats : SamePair(cats, i, name, type)}
    IN  IF found = {} THEN None ELSE Min(found)

\* C11, amended: after every add_category(name, color, type) that returned an
\* id, get_category_by_id(id) returns the name and the type the call was
\* given; it returns the color the call was given when no category had that
\* (name, type) before the call, and otherwise the color the first such
\* category already had.
C11_FetchedAsStored ==
    (last.op = "add_category" /\ last.ret # None)
    => LET c == get_category_by_id(categories, last.ret)
           old == FirstOfPair(last.before.categories, last.args.name, last.args.type)
       IN  /\ ~c.none
           /\ c.name = last.args.name
           /\ c.type = last.args.type
           /\ c.color = IF old = None THEN last.args.color
                        ELSE last.before.categories[old].color

C11_Witness ==
    /\ last.op = "add_category"
    /\ last.ret \in DOMAIN last.before.categories
    /\ last.before.categories[last.ret].color # last.args.color

\* C12: after every add_transaction(amount, category_id, description, type,
\* date) that returned an id, with a date that is a datetime or a str that
\* parses, get_transaction_by_id(id) returns that amount, that day as
\* YYYY-MM-DD, that type and that description, with category_name and
\* category_color those of the category row category_id names, or both null
\* when category_id is null or names no row.
C12_FetchedTransaction ==
    (/\ last.op = "add_transaction"
     /\ last.ret # None
     /\ \/ last.args.date.kind = "datetime"
        \/ (last.args.date.kind = "str" /\ strptime(last.args.date.text).ok))
    => LET got == get_transaction_by_id(transactions, categories, last.ret)
           cid == last.args.category_id
       IN  /\ ~got.none
           /\ got.row.amount = last.args.amount
           /\ got.row.date = ISOText(GivenDay(last.args.date))
           /\ got.row.type = last.args.type
           /\ got.row.description = last.args.description
           /\ IF cid \in DOMAIN categories
              THEN /\ got.row.category_name = <<categories[cid].name>>
                   /\ got.row.category_color = <<categories[cid].color>>
              ELSE /\ got.row.category_name = NULL
                   /\ got.row.category_color = NULL

\* the rows of a list, as a set
Rows(seq) == {seq[k] : k \in 1..Len(seq)}

\* the rows of a type among the rows ids of a table
RowsOfType(cats, ids, type) == {cats[i] : i \in {j \in ids : cats[j].type = type}}

\* C13: init_db keeps every category row and every transaction as it was; the
\* rows it adds are the 8 default expense categories when no expense category
\* existed and no expense row otherwise, the 5 default income categories when
\* no income category existed and no income row otherwise, and nothing else.
C13_InitSeeds ==
    last.op = "init_db" =>
        LET old == last.before.categories
            new == DOMAIN categories \ DOMAIN old
            added(type) == {i \in new : categories[i].type = type}
        IN  /\ transactions = last.before.transactions
            /\ \A i \in DOMAIN old : i \in DOMAIN categories /\ categories[i] = old[i]
            /\ IF CountOfType(old, "expense") = 0
               THEN /\ Cardinality(added("expense")) = 8
                    /\ RowsOfType(categories, new, "expense") = Rows(expense_categories)
               ELSE added("expense") = {}
            /\ IF CountOfType(old, "income") = 0
               THEN /\ Cardinality(added("income")) = 5
                    /\ RowsOfType(categories, new, "income") = Rows(income_categories)
               ELSE added("income") = {}
            /\ new = added("expense") \cup added("income")

C13_Witness ==
    /\ last.op = "init_db"
    /\ CountOfType(last.before.categories, "expense") = 0
    /\ CountOfType(last.before.categories, "income") > 0
    /\ CountOfType(categories, "expense") = 8
    /\ transactions # EmptyTable

\* the failure value each kind of method is to return; get_balance, a single
\* number, is given 0
NeutralValue(method) ==
    IF method \in {"add_category", "add_transaction", "get_category_by_id",
                   "get_transaction_by_id"} THEN "None"
    ELSE IF method \in {"update_category", "update_transaction", "delete_category",
                        "delete_transaction"} THEN "False"
    ELSE IF method = "get_balance" THEN "0"
    ELSE "[]"

\* C14: a data method in which the store fails, in opening the connection, in
\* obtaining the cursor or in a statement, returns its failure value (None for
\* add and get-by-id, False for update and delete, an empty list for the list
\* and aggregate queries) and no exception leaves it.
C14_StoreFailure ==
    (last.op \in DOMAIN ExceptReturn /\ "fault" \in DOMAIN last.args) =>
        /\ ~last.raised
        /\ last.ret = NeutralValue(last.op)

\* a list holds exactly the transactions ids, each once and as stored, newest
\* day first, and every row without a category row carries the substitute
\* name and color
ListedAs(list, txs, cats, ids) ==
    /\ Len(list) = Cardinality(ids)
    /\ {list[k].id : k \in 1..Len(list)} = ids
    /\ \A k \in 1..Len(list) :
          /\ list[k].id \in DOMAIN txs
          /\ list[k].amount = txs[list[k].id].amount
          /\ list[k].date = txs[list[k].id].date
          /\ list[k].type = txs[list[k].id].type
          /\ list[k].description = txs[list[k].id].description
          /\ list[k].category_id = txs[list[k].id].category_id
          /\ list[k].category_id \notin DOMAIN cats
             => /\ list[k].category_name = <<"Bez kategorii">>
                /\ list[k].category_color = <<"#607D8B">>
    /\ \A k, l \in 1..Len(list) :
          k < l => DayNumber(DayOfText(list[l].date)) <= DayNumber(DayOfText(list[k].date))

\* C15: get_all_transactions, get_transactions_by_type,
\* get_transactions_by_date_range (both bounds given) and
\* get_transactions_by_category each return exactly the stored transactions
\* matching their filter, newest date first, and in each of the four a row
\* whose category_id is null or names no category row carries the substitute
\* name and the color #607D8B.
C15_Lists ==
    /\ \A list \in get_all_transactions(transactions, categories) :
          ListedAs(list, transactions, categories, DOMAIN transactions)
    /\ \A type \in {"income", "expense"} :
          \A list \in get_transactions_by_type(transactions, categories, type) :
             ListedAs(list, transactions, categories, OfType(transactions, type))
    /\ \A start_date, end_date \in BoundArgs \ {DateNone} :
          \A list \in get_transactions_by_date_range(transactions, categories,
                                                     start_date, end_date) :
             ListedAs(list, transactions, categories,
                      InBounds(transactions, start_date, end_date))
    /\ \A category_id \in CategoryIdArgs :
          \A list \in get_transactions_by_category(transactions, categories, category_id) :
             ListedAs(list, transactions, categories,
                      {i \in DOMAIN transactions : transactions[i].category_id = category_id})

RECURSIVE SumTotals(_)
SumTotals(list) == IF list = <<>> THEN 0 ELSE Head(list).total + SumTotals(Tail(list))

\* the category a transaction is counted under: its category row's id, 0 when
\* it has none
CountedUnder(txs, cats, i) ==
    IF txs[i].category_id \in DOMAIN cats THEN txs[i].category_id ELSE 0

\* a list has one entry per category of the transactions ids, each with the
\* sum of that category's amounts, largest total first
SummedAs(list, txs, cats, ids) ==
    /\ \A k, l \in 1..Len(list) : k # l => list[k].category_id # list[l].category_id
    /\ {list[k].category_id : k \in 1..Len(list)} = {CountedUnder(txs, cats, i) : i \in ids}
    /\ \A k \in 1..Len(list) :
          list[k].total =
              SumAmount(txs, {i \in ids : CountedUnder(txs, cats, i) = list[k].category_id})
    /\ \A k, l \in 1..Len(list) : k < l => list[l].total <= list[k].total
    /\ SumTotals(list) = SumAmount(txs, ids)

\* C16: get_expenses_by_category and get_income_by_category, with any
\* combination of inclusive start and end bounds, return one entry per
\* category that has a transaction of that type on a day inside the bounds,
\* with the sum of those amounts, transactions without a category row under
\* one entry with category_id 0, largest total first; the totals add up to
\* the sum of all those transactions.
C16_ByCategory ==
    \A start_date, end_date \in BoundArgs :
        /\ \A list \in get_expenses_by_category(transactions, categories, start_date, end_date) :
              SummedAs(list, transactions, categories,
                       InBounds(transactions, start_date, end_date)
                           \cap OfType(transactions, "expense"))
        /\ \A list \in get_income_by_category(transactions, categories, start_date, end_date) :
              SummedAs(list, transactions, categories,
                       InBounds(transactions, start_date, end_date)
                           \cap OfType(transactions, "income"))

\* C17: update_category(id, name, color) returns True exactly when a category
\* with that id exists, and then that row's name and color are the arguments;
\* in every case each category keeps its type, every other category is as
\* before and the transactions are as before.
C17_UpdateCategory ==
    last.op = "update_category" =>
        LET old == last.before.categories
            id == last.args.category_id
        IN  /\ ~last.raised
            /\ last.ret = (id \in DOMAIN old)
            /\ DOMAIN categories = DOMAIN old
            /\ id \in DOMAIN old => /\ categories[id].name = last.args.name
                                     /\ categories[id].color = last.args.color
            /\ \A i \in DOMAIN old :
                  /\ categories[i].type = old[i].type
                  /\ i # id => categories[i] = old[i]
            /\ transactions = last.before.transactions

C17_Witness ==
    /\ last.op = "update_category"
    /\ last.ret = TRUE
    /\ last.before.categories[last.args.category_id].name # last.args.name
    /\ last.before.categories[last.args.category_id].color # last.args.color
    /\ \E i \in DOMAIN transactions : transactions[i].category_id = last.args.category_id

\* the store holds the three transactions of the scenario and nothing else
ScenarioStored ==
    /\ Cardinality(DOMAIN transactions) = 3
    /\ {transactions[i] : i \in DOMAIN transactions} =
          { Transaction(1000, 1, Text_2024_01_05, "", "income"),
            Transaction(300, 2, Text_2024_01_10, "", "expense"),
            Transaction(200, 2, Text_2024_02_01, "", "expense") }

\* C18: on a store holding only the categories Salary/income and Food/expense,
\* after adding income 1000 on 2024-01-05 under Salary, expense 300 on
\* 2024-01-10 and expense 200 on 2024-02-01 under Food: get_balance() is 500,
\* get_transactions_by_month() is [2024-01: 1000, 300, 700; 2024-02: 0, 200,
\* -200], and generate_monthly_report(all transactions, 2024, 1) has
\* total_expense 300 and the single expense entry Food = 300, 100.0%.
C18_Scenario ==
    ScenarioStored =>
        /\ get_balance(transactions) = 500
        /\ \A rows \in RowOrders(MonthRows(transactions, DateNone, DateNone)) :
              get_transactions_by_month(rows) =
                  [raised |-> FALSE,
                   result |-> << [month |-> SubSeq(Text_2024_01_05, 1, 7), income |-> 1000,
                                  expense |-> 300, balance |-> 700],
                                 [month |-> SubSeq(Text_2024_02_01, 1, 7), income |-> 0,
                                  expense |-> 200, balance |-> 0 - 200] >>]
        /\ \A list \in get_all_transactions(transactions, categories) :
              LET report == generate_monthly_report(list, 2024, 1)
              IN  /\ report.total_expense = 300
                  /\ report.expenses_by_category = <<[category |-> <<"Food">>, amount |-> 300]>>
                  /\ percentage(300, report.total_expense) = 1000

C18_Witness ==
    /\ ScenarioStored
    /\ last.op = "add_transaction"
    /\ DOMAIN categories = {1, 2}
    /\ transactions[3].amount = 200

\* the text YYYY-MM of a month
ISOMonth(year, month) == Pad4(year) \o <<Dash>> \o Pad2(month)

\* the places of a list whose date begins with a text
BeginsWith(list, prefix) == {k \in 1..Len(list) : startswith(list[k].date, prefix)}

RECURSIVE SumAt(_, _)
\* the sum of the amounts at the places ks of a list
SumAt(list, ks) ==
    IF ks = {} THEN 0 ELSE LET k == Min(ks) IN list[k].amount + SumAt(list, ks \ {k})

TypeAt(list, ks, type) == {k \in ks : list[k].type = type}

RECURSIVE SumItems(_)
SumItems(items) == IF items = <<>> THEN 0 ELSE Head(items).amount + SumItems(Tail(items))

\* a breakdown has one entry per category name among the places ks, each with
\* the sum of that name's amounts, largest first, adding up to the sum of ks
BrokenDown(items, list, ks) ==
    /\ \A a, b \in 1..Len(items) : a # b => items[a].category # items[b].category
    /\ {items[a].category : a \in 1..Len(items)} = {list[k].category_name : k \in ks}
    /\ \A a \in 1..Len(items) :
          items[a].amount = SumAt(list, {k \in ks : list[k].category_name = items[a].category})
    /\ \A a, b \in 1..Len(items) : a < b => items[b].amount <= items[a].amount
    /\ SumItems(items) = SumAt(list, ks)

RECURSIVE SumMonths(_, _, _)
\* the sum of a field of the monthly records over the months 1..n
SumMonths(monthly_data, field, n) ==
    IF n = 0 THEN 0 ELSE monthly_data[n][field] + SumMonths(monthly_data, field, n - 1)

C21_CategoryTypes ==
    \A i \in DOMAIN categories : categories[i].type \in {"income", "expense"}

\* C22: a delete_category call in which the detach statement, the delete
\* statement or the commit fails returns False, and the store is as it was
\* before the call: no category_id was nulled and no category row removed.
C22_DeleteAllOrNothing ==
    (/\ last.op = "delete_category"
     /\ "fault" \in DOMAIN last.args
     /\ last.args.fault \in {"detach", "delete", "commit"})
    => /\ ~last.raised
       /\ last.ret = "False"
       /\ categories = last.before.categories
       /\ transactions = last.before.transactions

C22_Witness ==
    /\ last.op = "delete_category"
    /\ "fault" \in DOMAIN last.args
    /\ last.args.fault = "delete"
    /\ last.args.category_id \in DOMAIN categories
    /\ \E i \in DOMAIN transactions : transactions[i].category_id = last.args.category_id

\* C23: every call in which the store fails, init_db included, has closed the
\* connection it opened when it is left.
C23_ConnectionClosed ==
    "fault" \in DOMAIN last.args => last.args.closed

\* the default settings document
DefaultDocument ==
    [database |-> [path |-> "finance.db"],
     interface |-> [theme |-> "Fusion", language |-> "ru_RU"],
     analytics |-> [default_period |-> "month"]]

\* C24: after any set calls on any Settings instance, reset_to_defaults() on
\* an instance leaves it with the default document, and an instance made on a
\* missing or unparsable file, and load_settings() on such an instance, yield
\* the default document.
C24_DefaultsFixed ==
    /\ last.op = "reset_to_defaults"
       => Document(heap, settings[last.args.instance].dict) = DefaultDocument
    /\ (last.op = "Settings" /\ settings_file[last.args.instance].state # "json")
       => Document(heap, settings[last.args.instance].dict) = DefaultDocument
    /\ (last.op = "load_settings" /\ settings_file[last.args.instance].state # "json")
       => last.ret = DefaultDocument

\* C25: from every set of categories SimpleDatabase.init_db leaves the
\* categories Database.init_db leaves from that set: the defaults of a type
\* without a category are inserted also when the other type has categories.
C25_SameSeeding ==
    last.op = "SimpleDatabase.init_db"
    => categories = _create_default_categories(last.before.categories)

\* a transaction that refers to no category or to a stored one
Refers(txs, cats, i) ==
    txs[i].category_id = None \/ txs[i].category_id \in DOMAIN cats

\* C26: after any add_transaction, update_transaction, add_category or
\* delete_category the category_id of every stored transaction is null or the
\* id of a stored category.
C26_ReferentialIntegrity ==
    last.op \in {"add_transaction", "update_transaction", "add_category", "delete_category"}
    => \A i \in DOMAIN transactions : Refers(transactions, categories, i)

\* C27: a delete_category that returns False with no store error has changed
\* neither the categories nor the transactions.
C27_FalseChangesNothing ==
    (last.op = "delete_category" /\ ~last.raised /\ "fault" \notin DOMAIN last.args
        /\ last.ret = FALSE)
    => /\ categories = last.before.categories
       /\ transactions = last.before.transactions

\* the first and the last day of a month, as the bounds of an aggregate query
FirstDay(year, month) == DateObj(year, month, 1)
LastDay(year, month) == DateObj(year, month, DaysInMonth(year, month))

\* the entries of a report breakdown and the rows of an aggregate agree in
\* number and, place by place, in total
SameBreakdown(items, rows) ==
    /\ Len(items) = Len(rows)
    /\ \A k \in 1..Len(items) : items[k].amount = rows[k].total

\* C28: the expense and income breakdowns of generate_monthly_report on
\* get_all_transactions() have as many entries, with the same totals, as
\* get_expenses_by_category and get_income_by_category bounded by the first
\* and last day of the month.
C28_SameBreakdown ==
    last.op = "generate_monthly_report"
    => /\ \A rows \in get_expenses_by_category(transactions, categories,
                         FirstDay(last.args.year, last.args.month),
                         LastDay(last.args.year, last.args.month)) :
             SameBreakdown(last.ret.expenses_by_category, rows)
       /\ \A rows \in get_income_by_category(transactions, categories,
                         FirstDay(last.args.year, last.args.month),
                         LastDay(last.args.year, last.args.month)) :
             SameBreakdown(last.ret.income_by_category, rows)

\* the rows of a type that carry one of the default names of the type
DefaultRows(cats, type) ==
    {i \in DOMAIN cats :
        /\ cats[i].type = type
        /\ \E k \in DOMAIN (expense_categories \o income_categories) :
              (expense_categories \o income_categories)[k] = cats[i]}

\* C29: whatever the order in which the statements of the init_db and
\* add_category calls of two application instances run, no two stored
\* categories have one (name, type), and once an instance has initialized the
\* store it holds the 8 expense and the 5 income default categories, no more.
C29_Interleaved ==
    /\ \A i, j \in DOMAIN categories :
          (categories[i].name = categories[j].name /\ categories[i].type = categories[j].type)
          => i = j
    /\ (\E p \in Apps : running[p].pc = "ready")
       => /\ Cardinality(DefaultRows(categories, "expense")) = 8
          /\ Cardinality(DefaultRows(categories, "income")) = 5

\* the stored transactions dated on or after a start bound
OnOrAfter(txs, start_date) == {i \in DOMAIN txs : TextLeq(BoundText(start_date), txs[i].date)}

\* C30: get_transactions_by_date_range(start) with no end returns every
\* stored transaction dated on or after start, the transactions that
\* get_expenses_by_category(start) and get_income_by_category(start) add up.
C30_OpenEnded ==
    \A start_date \in BoundArgs \ {DateNone} :
       \A list \in get_transactions_by_date_range(transactions, categories, start_date, DateNone) :
          /\ {list[k].id : k \in DOMAIN list} = OnOrAfter(transactions, start_date)
          /\ \A rows \in get_expenses_by_category(transactions, categories, start_date, DateNone) :
                SumTotals(rows) = SumOfType(list, "expense")
          /\ \A rows \in get_income_by_category(transactions, categories, start_date, DateNone) :
                SumTotals(rows) = SumOfType(list, "income")

\* the current day as a bound
Today == DateObj(Now.year, Now.month, Now.day)

\* C30 (amended): get_transactions_by_date_range(start) with no end returns
\* the stored transactions dated from start to the current day, both
\* included; a transaction dated after the current day is not returned.
C30_UpToToday ==
    \A start_date \in BoundArgs \ {DateNone} :
       \A list \in get_transactions_by_date_range(transactions, categories, start_date, DateNone) :
          /\ Len(list) = Cardinality(InBounds(transactions, start_date, Today))
          /\ {list[k].id : k \in DOMAIN list} = InBounds(transactions, start_date, Today)

\* a transaction of the current day is returned and one of a later day,
\* stored as well, is not
C30_Witness ==
    \E start_date \in BoundArgs \ {DateNone} :
       \E list \in get_transactions_by_date_range(transactions, categories, start_date, DateNone) :
          /\ Len(list) > 0
          /\ \E i \in OnOrAfter(transactions, start_date) :
                /\ DayNumber(DayOfText(transactions[i].date)) > DayNumber(Now)
                /\ \A k \in DOMAIN list : list[k].id # i

====
